---- MODULE Spec2Model ----
(***************************************************************************)
(* The Boltzmann wealth model of docs/tutorials/visualization_tutorial:    *)
(* compute_gini, MoneyAgent and MoneyModel, on a toroidal MultiGrid.       *)
(*                                                                         *)
(* A model object is a record s; the methods of the tutorial are operators *)
(* from a model object (and the values drawn from its random generator) to *)
(* the model object they leave behind.  The variables hold, per run, the   *)
(* fields of the model object of that run.                                 *)
(***************************************************************************)
EXTENDS Integers, Sequences, FiniteSets, TLC

\* ---------------------------------------------------------------- bounds
MaxAgents == 2      \* constructor argument n ranges over 1..MaxAgents
MaxCells == 4       \* width * height ranges over 1..MaxCells
MaxSteps == 2       \* step() calls per run
MaxSeed == 3        \* the seeds of seeded runs range over 0..MaxSeed

None == <<>>        \* Python's None (seed=None, agent.pos before placement)
Runs == {1, 2}      \* model objects that may be constructed side by side

VARIABLES
    n, width, height, seed,   \* the constructor's arguments
    runs,           \* the runs the caller constructs from these arguments
    pc,             \* per run: "new", "idle", "stepping", "failed"
    wealth,         \* per run: agent -> agent.wealth
    pos,            \* per run: agent -> agent.pos
    grid,           \* per run: cell -> agents in that cell of model.grid
    random,         \* per run: model.random / model.rng: [seed, state]
    num_agents,     \* per run: model.num_agents
    schedule,       \* per run: agents shuffle_do has still to activate
    steps,          \* per run: model.steps
    datacollector,  \* per run: [Gini: series, Wealth: one row per capture]
    err             \* per run: the exception that left the run, or "none"

vars == <<n, width, height, seed, runs, pc, wealth, pos, grid, random,
          num_agents, schedule, steps, datacollector, err>>

\* ------------------------------------------------------------ sequences
RECURSIVE sum(_)
sum(x) == IF x = <<>> THEN 0 ELSE Head(x) + sum(Tail(x))

\* sorted(seq): ascending, stable
sorted(x) ==
    LET N == Len(x)
        rank(i) == Cardinality({j \in 1..N : x[j] < x[i] \/ (x[j] = x[i] /\ j < i)}) + 1
    IN  [k \in 1..N |-> x[CHOOSE i \in 1..N : rank(i) = k]]

\* the elements of S listed by ascending key
ListBy(S, key(_)) ==
    [k \in 1..Cardinality(S) |->
        CHOOSE c \in S : Cardinality({d \in S : key(d) < key(c)}) = k - 1]

Perms(S) ==
    {p \in [1..Cardinality(S) -> S] : \A i, j \in 1..Cardinality(S) : p[i] = p[j] => i = j}

\* --------------------------------------------------------- the generator
\* A generator seeded with None yields any values; one seeded with a number
\* yields the values of a fixed stream of that seed (here a full-period
\* linear congruential stream, read from its high bits).
lcg(x) == (x * 13 + 7) % 64

RECURSIVE stream(_, _)
stream(x, i) == IF i = 0 THEN x ELSE stream(lcg(x), i - 1)

\* the value below m that the i-th draw from now yields (i = 0 the next one)
randbelow(rnd, i, m) == (stream(rnd.state, i + 1) \div 4) % m

\* the generator after k draws
skip(rnd, k) ==
    IF rnd.seed = None THEN rnd ELSE [rnd EXCEPT !.state = stream(@, k)]

\* the values an action may draw: D from an unseeded generator, and from a
\* seeded one the value det its stream yields
Draws(rnd, D, det) == IF rnd.seed = None THEN D ELSE {det}

\* random.choice(seq) with u the generator's output: seq[randbelow(len(seq))]
random_choice(x, u) == x[(u % Len(x)) + 1]

\* random.shuffle(x): for i from len(x)-1 down to 1, swap x[i] and
\* x[randbelow(i+1)] (0-based), the k-th swap using the k-th draw
RECURSIVE shuffle(_, _, _)
shuffle(rnd, x, k) ==
    LET i == Len(x) - k
    IN  IF i <= 1 THEN x
        ELSE LET j == randbelow(rnd, k, i) + 1
             IN  shuffle(rnd, [x EXCEPT ![i] = x[j], ![j] = x[i]], k + 1)

\* ------------------------------------------------------------- the grid
Cells == (0..(width - 1)) \X (0..(height - 1))
CellKey(c) == c[1] * height + c[2]
AgentKey(a) == a

\* MultiGrid(width, height, torus=True).get_neighborhood(p, moore=True,
\* include_center=False): the wrapped positions at Chebyshev distance <= 1
neighborhood(p, w, h) ==
    {<<(p[1] + dx + w) % w, (p[2] + dy + h) % h>> : dx \in -1..1, dy \in -1..1} \ {p}

get_neighborhood(p) == ListBy(neighborhood(p, width, height), CellKey)

get_cell_list_contents(s, p) == ListBy(s.grid[p], AgentKey)

place_agent(s, a, p) ==
    [s EXCEPT !.grid = [@ EXCEPT ![p] = @ \cup {a}], !.pos = [@ EXCEPT ![a] = p]]

remove_agent(s, a) ==
    [s EXCEPT !.grid = [@ EXCEPT ![s.pos[a]] = @ \ {a}], !.pos = [@ EXCEPT ![a] = None]]

move_agent(s, a, p) == place_agent(remove_agent(s, a), a, p)

\* ------------------------------------------------------------ compute_gini
\* The value 1 + 1/N - 2B is kept exact, as the fraction num/den with
\* den = N * sum(x), the divisor the code divides by.
\* enumerate(x) numbered from 1: every weight N - i one too small
gini_B_from_one(x, N) ==
    [num |-> sum([k \in 1..Len(x) |-> x[k] * (N - k)]), den |-> N * sum(x)]

\* B = sum(xi * (N - i) for i, xi in enumerate(x)) / (N * sum(x)); the k-th
\* element of x (from 1) is enumerate's x[k - 1]
gini_B(x, N) ==
    [num |-> sum([k \in 1..Len(x) |-> x[k] * (N - (k - 1))]), den |-> N * sum(x)]

\* the agents of model.agents, in creation order
agent_wealths(s) == [a \in 1..Cardinality(DOMAIN s.wealth) |-> s.wealth[a]]

\* x = agent_wealths, the sort left out
compute_gini_unsorted(s) ==
    LET x == agent_wealths(s)
        B == gini_B(x, s.num_agents)
    IN  [num |-> B.den + sum(x) - 2 * B.num, den |-> B.den]

\* return 1 - 2 * B, the term 1 / N left out
compute_gini_no_inverse_N(s) ==
    LET x == sorted(agent_wealths(s))
        B == gini_B(x, s.num_agents)
    IN  [num |-> B.den - 2 * B.num, den |-> B.den]

compute_gini(s) ==
    LET x == sorted(agent_wealths(s))
        N == s.num_agents
        B == gini_B(x, N)
    IN  [num |-> B.den + sum(x) - 2 * B.num, den |-> B.den]

\* ------------------------------------------------------------- MoneyAgent
\* self.wealth = 2
MoneyAgent_init_rich(a) == 2

\* an agent created with no wealth
MoneyAgent_init_broke(a) == 0

\* self.wealth = 1
MoneyAgent_init(a) == 1

\* get_neighborhood called with include_center=True: the agent may stay
MoneyAgent_move_may_stay(s, a, u) ==
    LET possible_steps == ListBy(neighborhood(s.pos[a], width, height) \cup {s.pos[a]}, CellKey)
    IN  move_agent(s, a, random_choice(possible_steps, u))

\* place_agent where move_agent was meant: the old cell keeps the agent
MoneyAgent_move_keeps_old_cell(s, a, u) ==
    LET possible_steps == get_neighborhood(s.pos[a])
    IN  IF Len(possible_steps) = 0
        THEN [s EXCEPT !.err = "IndexError"]
        ELSE place_agent(s, a, random_choice(possible_steps, u))

\* move: an empty possible_steps makes random.choice raise IndexError
MoneyAgent_move(s, a, u) ==
    LET possible_steps == get_neighborhood(s.pos[a])
    IN  IF Len(possible_steps) = 0
        THEN [s EXCEPT !.err = "IndexError"]
        ELSE move_agent(s, a, random_choice(possible_steps, u))

\* give_money with the signs exchanged: the acting agent takes
MoneyAgent_give_money_takes(s, a, v) ==
    LET cellmates == get_cell_list_contents(s, s.pos[a])
    IN  IF Len(cellmates) > 1
        THEN LET other == random_choice(cellmates, v)
                 s1 == [s EXCEPT !.wealth = [@ EXCEPT ![other] = @ - 1]]
             IN  [s1 EXCEPT !.wealth = [@ EXCEPT ![a] = @ + 1]]
        ELSE s

\* give_money without self.wealth -= 1
MoneyAgent_give_money_no_debit(s, a, v) ==
    LET cellmates == get_cell_list_contents(s, s.pos[a])
    IN  IF Len(cellmates) > 1
        THEN [s EXCEPT !.wealth = [@ EXCEPT ![random_choice(cellmates, v)] = @ + 1]]
        ELSE s

MoneyAgent_give_money(s, a, v) ==
    LET cellmates == get_cell_list_contents(s, s.pos[a])
    IN  IF Len(cellmates) > 1
        THEN LET other == random_choice(cellmates, v)
                 s1 == [s EXCEPT !.wealth = [@ EXCEPT ![other] = @ + 1]]
             IN  [s1 EXCEPT !.wealth = [@ EXCEPT ![a] = @ - 1]]
        ELSE s

\* step giving before it moves
MoneyAgent_step_gives_first(s, a, u, v) ==
    LET s1 == IF s.wealth[a] > 0 THEN MoneyAgent_give_money(s, a, v) ELSE s
    IN  MoneyAgent_move(s1, a, u)

\* step catching the exception of move and carrying on
MoneyAgent_step_swallows(s, a, u, v) ==
    LET s1 == MoneyAgent_move(s, a, u)
    IN  IF s1.err # "none" THEN s
        ELSE IF s1.wealth[a] > 0 THEN MoneyAgent_give_money(s1, a, v)
        ELSE s1

\* step without the test self.wealth > 0
MoneyAgent_step_unguarded(s, a, u, v) ==
    LET s1 == MoneyAgent_move(s, a, u)
    IN  IF s1.err # "none" THEN s1 ELSE MoneyAgent_give_money(s1, a, v)

MoneyAgent_step(s, a, u, v) ==
    LET s1 == MoneyAgent_move(s, a, u)
    IN  IF s1.err # "none" THEN s1
        ELSE IF s1.wealth[a] > 0 THEN MoneyAgent_give_money(s1, a, v)
        ELSE s1

\* ---------------------------------------------------------- DataCollector
\* collect(model): one Gini value and one row of agent wealths per capture;
\* a zero divisor in compute_gini raises ZeroDivisionError out of collect
collect(s) ==
    LET g == compute_gini(s)
    IN  IF g.den = 0
        THEN [s EXCEPT !.err = "ZeroDivisionError"]
        ELSE [s EXCEPT !.datacollector =
                 [Gini |-> Append(@.Gini, g), Wealth |-> Append(@.Wealth, s.wealth)]]

\* -------------------------------------------------------------- MoneyModel
\* super().__init__() with the seed not passed on
super_init_unseeded(seedarg) == [seed |-> None, state |-> 0]

\* super().__init__(seed=seed): the generator of the model
super_init(seedarg) ==
    [seed |-> seedarg, state |-> IF seedarg = None THEN 0 ELSE seedarg[1]]

RECURSIVE place_all(_, _, _)
place_all(s, xy, k) ==
    IF k = 0 THEN s ELSE place_agent(place_all(s, xy, k - 1), k, xy[k])

\* create_agents(n=n - 1): one agent fewer than num_agents says
MoneyModel_init_one_short(narg, seedarg, xy) ==
    LET s0 == [wealth |-> [a \in 1..(narg - 1) |-> MoneyAgent_init(a)],
               pos |-> [a \in 1..(narg - 1) |-> None],
               grid |-> [c \in Cells |-> {}],
               random |-> super_init(seedarg),
               num_agents |-> narg,
               schedule |-> <<>>,
               steps |-> 0,
               datacollector |-> [Gini |-> <<>>, Wealth |-> <<>>],
               err |-> "none"]
    IN  collect(place_all(s0, xy, narg - 1))

\* MoneyModel(n, width, height, seed), xy the positions drawn from model.rng
MoneyModel_init(narg, seedarg, xy) ==
    LET s0 == [wealth |-> [a \in 1..narg |-> MoneyAgent_init(a)],
               pos |-> [a \in 1..narg |-> None],
               grid |-> [c \in Cells |-> {}],
               random |-> super_init(seedarg),
               num_agents |-> narg,
               schedule |-> <<>>,
               steps |-> 0,
               datacollector |-> [Gini |-> <<>>, Wealth |-> <<>>],
               err |-> "none"]
    IN  collect(place_all(s0, xy, narg))

\* step without self.datacollector.collect(self)
MoneyModel_step_end_no_collect(s) == [s EXCEPT !.steps = @ + 1]

\* step building a new DataCollector before it collects
MoneyModel_step_end_new_collector(s) ==
    collect([s EXCEPT !.steps = @ + 1, !.datacollector = [Gini |-> <<>>, Wealth |-> <<>>]])

\* MoneyModel.step, after shuffle_do has activated every agent
MoneyModel_step_end(s) == collect([s EXCEPT !.steps = @ + 1])

\* ---------------------------------------------------------------- the runs
M(r) == [wealth |-> wealth[r], pos |-> pos[r], grid |-> grid[r],
         random |-> random[r], num_agents |-> num_agents[r],
         schedule |-> schedule[r], steps |-> steps[r],
         datacollector |-> datacollector[r], err |-> err[r]]

Commit(r, s, newpc) ==
    /\ pc' = [pc EXCEPT ![r] = IF s.err # "none" THEN "failed" ELSE newpc]
    /\ wealth' = [wealth EXCEPT ![r] = s.wealth]
    /\ pos' = [pos EXCEPT ![r] = s.pos]
    /\ grid' = [grid EXCEPT ![r] = s.grid]
    /\ random' = [random EXCEPT ![r] = s.random]
    /\ num_agents' = [num_agents EXCEPT ![r] = s.num_agents]
    /\ schedule' = [schedule EXCEPT ![r] = s.schedule]
    /\ steps' = [steps EXCEPT ![r] = s.steps]
    /\ datacollector' = [datacollector EXCEPT ![r] = s.datacollector]
    /\ err' = [err EXCEPT ![r] = s.err]
    /\ UNCHANGED <<n, width, height, seed, runs>>

advance(s, k) == [s EXCEPT !.random = skip(@, k)]

\* rng.integers(0, width, size=n) then rng.integers(0, height, size=n)
Placement(rnd, narg) ==
    [a \in 1..narg |-> <<randbelow(rnd, a - 1, width), randbelow(rnd, narg + a - 1, height)>>]

\* how many cellmates give_money chooses among once agent a has moved by u
\* (0 when the activation makes no such choice)
Choosable(s, a, u) ==
    LET s1 == MoneyAgent_move(s, a, u)
        k == Len(get_cell_list_contents(s1, s1.pos[a]))
    IN  IF s1.wealth[a] > 0 /\ k > 1 THEN k ELSE 0

\* the draws <<move, give>> one activation of agent a can make
AgentDraws(s, a) ==
    UNION { {<<u, v>> : v \in 0..(IF Choosable(s, a, u) = 0 THEN 0 ELSE Choosable(s, a, u) - 1)}
            : u \in 0..(Len(get_neighborhood(s.pos[a])) - 1) }

\* the draws a seeded generator yields for the activation of agent a
AgentDraw(s, a) ==
    LET u == randbelow(s.random, 0, Len(get_neighborhood(s.pos[a])))
    IN  <<u, IF Choosable(s, a, u) = 0 THEN 0 ELSE randbelow(s.random, 1, Choosable(s, a, u))>>

\* model = MoneyModel(n, width, height, seed)
Construct(r) ==
    /\ r \in runs
    /\ pc[r] = "new"
    /\ \E xy \in Draws(super_init(seed), [1..n -> Cells], Placement(super_init(seed), n)) :
          Commit(r, advance(MoneyModel_init(n, seed, xy), 2 * n), "idle")

\* model.step(): shuffle_do draws the activation order of this tick
StepBegin(r) ==
    /\ pc[r] = "idle"
    /\ steps[r] < MaxSteps
    /\ LET agents == ListBy(DOMAIN wealth[r], AgentKey)
       IN  \E order \in Draws(random[r], Perms(DOMAIN wealth[r]), shuffle(random[r], agents, 0)) :
              Commit(r, advance([M(r) EXCEPT !.schedule = order], Len(agents) - 1), "stepping")

\* shuffle_do activates the next agent: agent.step()
Activate(r) ==
    /\ pc[r] = "stepping"
    /\ schedule[r] # <<>>
    /\ LET a == Head(schedule[r])
           s == [M(r) EXCEPT !.schedule = Tail(@)]
       IN  IF Len(get_neighborhood(pos[r][a])) = 0
           THEN Commit(r, MoneyAgent_step(s, a, 0, 0), "stepping")
           ELSE \E d \in Draws(random[r], AgentDraws(s, a), AgentDraw(s, a)) :
                   Commit(r, advance(MoneyAgent_step(s, a, d[1], d[2]),
                                     IF Choosable(s, a, d[1]) = 0 THEN 1 ELSE 2), "stepping")

\* the capture not waiting for shuffle_do to finish
StepEnd_early(r) ==
    /\ pc[r] = "stepping"
    /\ Commit(r, MoneyModel_step_end(M(r)), "idle")

\* every agent has acted: the tick is counted and captured
StepEnd(r) ==
    /\ pc[r] = "stepping"
    /\ schedule[r] = <<>>
    /\ Commit(r, MoneyModel_step_end(M(r)), "idle")

Blank == [r \in Runs |-> <<>>]

InitRuns ==
    /\ pc = [r \in Runs |-> "new"]
    /\ wealth = Blank /\ pos = Blank /\ grid = Blank /\ schedule = Blank
    /\ random = [r \in Runs |-> super_init(None)]
    /\ num_agents = [r \in Runs |-> 0]
    /\ steps = [r \in Runs |-> 0]
    /\ datacollector = [r \in Runs |-> [Gini |-> <<>>, Wealth |-> <<>>]]
    /\ err = [r \in Runs |-> "none"]

InitArgs ==
    /\ n \in 1..MaxAgents
    /\ width \in 1..MaxCells
    /\ height \in 1..MaxCells
    /\ width * height <= MaxCells

\* one model, constructed without a seed
Init ==
    /\ InitArgs
    /\ seed = None
    /\ runs = {1}
    /\ InitRuns

\* two models, constructed from the same arguments and the same seed
InitDet ==
    /\ InitArgs
    /\ seed \in {<<k>> : k \in 0..MaxSeed}
    /\ runs = Runs
    /\ InitRuns

Next ==
    \E r \in Runs :
        \/ Construct(r)
        \/ StepBegin(r)
        \/ Activate(r)
        \/ StepEnd(r)

Spec == Init /\ [][Next]_vars

SpecDet == InitDet /\ [][Next]_vars

\* ================================================================ claims
Live(r) == pc[r] # "new"

\* this step is the activation of the agent at the head of run r's schedule
Activated(r) ==
    /\ pc[r] = "stepping"
    /\ schedule[r] # <<>>
    /\ schedule'[r] = Tail(schedule[r])

\* C1: every step taken inside step() leaves the sum of all agents' wealth
\* as it was, whatever the activation order and the draws; so the sum after
\* step() is the sum before it.
C1_Conservation ==
    [][\A r \in Runs : Live(r) => sum(wealth'[r]) = sum(wealth[r])]_vars

\* a completed step() in which wealth has changed hands
C1_Witness ==
    /\ pc[1] = "idle"
    /\ steps[1] >= 1
    /\ \E a \in DOMAIN wealth[1] : wealth[1][a] = 0

\* C2: no agent's wealth is ever negative, and the activation of an agent
\* whose wealth is 0 changes no agent's wealth.
C2_NonNegative ==
    /\ [](\A r \in Runs : \A a \in DOMAIN wealth[r] : wealth[r][a] >= 0)
    /\ [][\A r \in Runs :
            (Activated(r) /\ wealth[r][Head(schedule[r])] = 0) => wealth'[r] = wealth[r]]_vars

\* an agent whose wealth is 0 has been activated in a cell it shares
C2_Witness ==
    /\ pc[1] = "stepping"
    /\ steps[1] >= 1
    /\ \E a \in DOMAIN wealth[1] :
          /\ \A i \in 1..Len(schedule[1]) : schedule[1][i] # a
          /\ datacollector[1].Wealth[steps[1] + 1][a] = 0
          /\ wealth[1] = datacollector[1].Wealth[steps[1] + 1]
          /\ Cardinality(grid[1][pos[1][a]]) > 1

\* C3: once constructed, every agent is in exactly one cell, the cell of its
\* stored position, which lies inside the grid; the cells together hold the
\* agents of the model and nothing else.
C3_IndexConsistent ==
    \A r \in Runs : Live(r) =>
        /\ \A a \in DOMAIN wealth[r] :
              /\ pos[r][a] \in Cells
              /\ \A c \in Cells : a \in grid[r][c] <=> c = pos[r][a]
        /\ DOMAIN grid[r] = Cells
        /\ UNION {grid[r][c] : c \in Cells} = DOMAIN wealth[r]
        /\ DOMAIN wealth[r] = 1..n

\* a completed step() on a grid of several cells, two agents sharing a cell
C3_Witness ==
    /\ pc[1] = "idle"
    /\ steps[1] >= 1
    /\ \E c \in Cells : Cardinality(grid[1][c]) > 1
    /\ \E c \in Cells : grid[1][c] = {}

\* C4: two models constructed with the same seed and arguments are equal
\* whenever they have come equally far (same tick, same number of agents
\* activated in it): same placements, activation order, positions, wealth
\* and metric series; and what one has captured, the other captures too.
C4_Determinism ==
    /\ (pc[1] = pc[2] /\ steps[1] = steps[2] /\ Len(schedule[1]) = Len(schedule[2]))
          => M(1) = M(2)
    /\ \A i \in 1..Len(datacollector[1].Gini) : i <= Len(datacollector[2].Gini) =>
          /\ datacollector[1].Gini[i] = datacollector[2].Gini[i]
          /\ datacollector[1].Wealth[i] = datacollector[2].Wealth[i]

\* both models have completed their steps, and wealth has changed hands
C4_Witness ==
    /\ pc[1] = "idle" /\ pc[2] = "idle"
    /\ steps[1] = MaxSteps /\ steps[2] = MaxSteps
    /\ \E a \in DOMAIN wealth[1] : wealth[1][a] = 0

\* C5: on a 1x1 grid the move phase raises no error, the agent stays in its
\* cell and step() completes.
C5_DegenerateGridNoError ==
    \A r \in Runs : (Live(r) /\ width = 1 /\ height = 1) => err[r] = "none"

\* C6: when an agent with wealth > 0 is activated and, having moved, shares
\* its cell, its wealth goes down by exactly 1 and exactly one other agent's
\* wealth goes up by exactly 1.
C6_GivesToAnother ==
    [][\A r \in Runs :
          LET a == Head(schedule[r])
          IN  ( /\ Activated(r)
                /\ err'[r] = "none"
                /\ wealth[r][a] > 0
                /\ Cardinality(grid'[r][pos'[r][a]]) > 1 )
              => /\ wealth'[r][a] = wealth[r][a] - 1
                 /\ \E b \in DOMAIN wealth[r] \ {a} :
                       /\ wealth'[r][b] = wealth[r][b] + 1
                       /\ \A c \in DOMAIN wealth[r] \ {a, b} :
                             wealth'[r][c] = wealth[r][c]]_vars

\* C7: a run that has completed k steps holds k + 1 Gini values and k + 1
\* rows of Wealth, each row with one value per agent; the two series are
\* always equally long.
C7_CaptureCount ==
    \A r \in Runs : Live(r) =>
        /\ Len(datacollector[r].Gini) = Len(datacollector[r].Wealth)
        /\ pc[r] = "idle" =>
              /\ Len(datacollector[r].Gini) = steps[r] + 1
              /\ \A i \in 1..Len(datacollector[r].Wealth) :
                    DOMAIN datacollector[r].Wealth[i] = 1..n

\* two steps completed
C7_Witness == pc[1] = "idle" /\ steps[1] = 2

\* C8: compute_gini never divides by zero: N * sum(x) is not 0 in any
\* state of a constructed model, and no capture raises ZeroDivisionError.
C8_NoZeroDivision ==
    \A r \in Runs :
        /\ err[r] # "ZeroDivisionError"
        /\ Live(r) => compute_gini(M(r)).den # 0

\* a capture taken while some agent held no wealth
C8_Witness ==
    \E i \in 1..Len(datacollector[1].Wealth) :
        \E a \in DOMAIN wealth[1] : datacollector[1].Wealth[i][a] = 0

\* C9: every captured coefficient num/den lies in [0, 1]:
\* 0 <= (N+1)*S - 2*sum(x[i]*(N-i)) <= N*S.
C9_GiniRange ==
    \A r \in Runs : \A i \in 1..Len(datacollector[r].Gini) :
        LET g == datacollector[r].Gini[i]
        IN  g.den > 0 /\ 0 <= g.num /\ g.num <= g.den

\* a captured coefficient above 0
C9_Witness ==
    \E i \in 1..Len(datacollector[1].Gini) : datacollector[1].Gini[i].num > 0

\* C10: with one agent every captured coefficient is 0, B being 1, and the
\* agent keeps wealth 1.
C10_SingleAgent ==
    \A r \in Runs : (Live(r) /\ n = 1) =>
        /\ \A i \in 1..Len(datacollector[r].Gini) : datacollector[r].Gini[i].num = 0
        /\ gini_B(sorted(agent_wealths(M(r))), num_agents[r]).num
              = gini_B(sorted(agent_wealths(M(r))), num_agents[r]).den
        /\ wealth[r][1] = 1

\* a lone agent that has moved through two steps
C10_Witness == n = 1 /\ pc[1] = "idle" /\ steps[1] = 2

\* C11: the neighbourhood of a position p is the set of positions other than
\* p within wrapped Chebyshev distance 1 of it; on a 10x10 grid that of
\* (0,0) is the 8 positions (9,9), (9,0), (9,1), (0,9), (0,1), (1,9), (1,0),
\* (1,1); and every move takes the agent to a member of the neighbourhood
\* of the position it moves from.
Near(i, j, m) == LET d == IF i >= j THEN i - j ELSE j - i IN d <= 1 \/ m - d <= 1

Elements(x) == {x[i] : i \in 1..Len(x)}

C11_Neighborhood ==
    /\ [](\A p \in Cells :
            Elements(get_neighborhood(p)) =
                {q \in Cells : q # p /\ Near(p[1], q[1], width) /\ Near(p[2], q[2], height)})
    /\ [](neighborhood(<<0, 0>>, 10, 10) =
            {<<9, 9>>, <<9, 0>>, <<9, 1>>, <<0, 9>>, <<0, 1>>, <<1, 9>>, <<1, 0>>, <<1, 1>>})
    /\ [][\A r \in Runs :
            (Activated(r) /\ err'[r] = "none") =>
                pos'[r][Head(schedule[r])] \in Elements(get_neighborhood(pos[r][Head(schedule[r])]))]_vars

\* an agent has moved on a 2x2 grid, where a position has three neighbours
C11_Witness ==
    /\ width = 2 /\ height = 2
    /\ pc[1] = "stepping"
    /\ Len(schedule[1]) < n
    /\ err[1] = "none"

\* C12: a step() schedules every agent exactly once; while it runs, the
\* only things that happen are the activation of the agent at the head of
\* the schedule, one at a time, each on the state the one before left, and,
\* once no agent is left, the capture that ends the step; outside a step no
\* agent acts and nothing is captured.
C12_ActivationDiscipline ==
    [][\A r \in Runs :
          /\ (pc[r] = "idle" /\ pc'[r] = "stepping") =>
                /\ schedule'[r] \in Perms(DOMAIN wealth[r])
                /\ wealth'[r] = wealth[r] /\ pos'[r] = pos[r]
          /\ (pc[r] = "stepping" /\ schedule[r] # <<>> /\ M(r)' # M(r)) =>
                /\ schedule'[r] = Tail(schedule[r])
                /\ datacollector'[r] = datacollector[r]
                /\ steps'[r] = steps[r]
                /\ pc'[r] \in {"stepping", "failed"}
          /\ (pc[r] = "stepping" /\ schedule[r] = <<>> /\ M(r)' # M(r)) =>
                /\ pc'[r] = "idle"
                /\ steps'[r] = steps[r] + 1
                /\ Len(datacollector'[r].Gini) = Len(datacollector[r].Gini) + 1
                /\ datacollector'[r].Wealth[steps'[r] + 1] = wealth[r]
          /\ (pc[r] = "idle" /\ pc'[r] = "idle") => M(r)' = M(r)]_vars

\* a completed step of two agents in which the second received from the first
C12_Witness ==
    /\ n = 2
    /\ pc[1] = "idle"
    /\ steps[1] = 1
    /\ \E a \in DOMAIN wealth[1] : wealth[1][a] = 2

\* C13: a capture leaves every agent's wealth and position, the grid and
\* the population as they are; the metric series only ever grow at their
\* end, by one value each per capture, the values already recorded staying
\* as they are; the row recorded is the wealth the agents hold.
C13_CaptureFrame ==
    [][\A r \in Runs :
          /\ (Live(r) /\ datacollector'[r] # datacollector[r]) =>
                /\ wealth'[r] = wealth[r]
                /\ pos'[r] = pos[r]
                /\ grid'[r] = grid[r]
                /\ num_agents'[r] = num_agents[r]
                /\ Len(datacollector'[r].Gini) = Len(datacollector[r].Gini) + 1
                /\ Len(datacollector'[r].Wealth) = Len(datacollector[r].Wealth) + 1
          /\ \A i \in 1..Len(datacollector[r].Gini) :
                /\ i <= Len(datacollector'[r].Gini)
                /\ datacollector'[r].Gini[i] = datacollector[r].Gini[i]
          /\ \A i \in 1..Len(datacollector[r].Wealth) :
                /\ i <= Len(datacollector'[r].Wealth)
                /\ datacollector'[r].Wealth[i] = datacollector[r].Wealth[i]
          /\ (datacollector'[r] # datacollector[r]) =>
                datacollector'[r].Wealth[Len(datacollector'[r].Wealth)] = wealth'[r]]_vars

\* three captures, the wealth recorded by the second differing from the first
C13_Witness ==
    /\ pc[1] = "idle"
    /\ Len(datacollector[1].Wealth) = 3
    /\ datacollector[1].Wealth[2] # datacollector[1].Wealth[1]

\* C14: an activation that fails ends the step() with its exception; the
\* failing step leaves wealth, positions, grid, step counter and metric
\* series as the agents activated before left them, the agents still
\* scheduled untouched, and the failed run is not resumed: nothing is
\* captured for that tick.
C14_NoRollback ==
    [][\A r \in Runs :
          /\ (Activated(r) /\ Len(get_neighborhood(pos[r][Head(schedule[r])])) = 0) =>
                /\ pc'[r] = "failed"
                /\ err'[r] = "IndexError"
          /\ (pc[r] = "stepping" /\ pc'[r] = "failed") =>
                /\ err'[r] # "none"
                /\ wealth'[r] = wealth[r]
                /\ pos'[r] = pos[r]
                /\ grid'[r] = grid[r]
                /\ steps'[r] = steps[r]
                /\ datacollector'[r] = datacollector[r]
          /\ pc[r] = "failed" => M(r)' = M(r) /\ pc'[r] = "failed"]_vars

\* a step() that failed with an agent still to activate, after one capture
C14_Witness ==
    /\ pc[1] = "failed"
    /\ err[1] = "IndexError"
    /\ Len(schedule[1]) = 1
    /\ Len(datacollector[1].Gini) = 1

\* C15: in an activation every agent whose wealth changes is, after the
\* move, in the cell the acting agent has moved to; an acting agent alone in
\* that cell changes no agent's wealth.
C15_MoveThenTransfer ==
    [][\A r \in Runs :
          (Activated(r) /\ err'[r] = "none") =>
              LET cell == grid'[r][pos'[r][Head(schedule[r])]]
              IN  /\ \A b \in DOMAIN wealth[r] :
                        wealth'[r][b] # wealth[r][b] => b \in cell
                  /\ Cardinality(cell) = 1 => wealth'[r] = wealth[r]]_vars

\* mid-step, an agent holds what another gave it on arriving in its cell
C15_Witness ==
    /\ pc[1] = "stepping"
    /\ steps[1] = 0
    /\ \E a \in DOMAIN wealth[1] : wealth[1][a] = 2 /\ Cardinality(grid[1][pos[1][a]]) = 2

\* C16: a constructed model holds exactly the n agents 1..n, in every state
\* and in every captured row, and model.num_agents is their number.
C16_FixedPopulation ==
    \A r \in Runs : Live(r) =>
        /\ DOMAIN wealth[r] = 1..n
        /\ DOMAIN pos[r] = 1..n
        /\ Cardinality(DOMAIN wealth[r]) = n
        /\ num_agents[r] = Cardinality(DOMAIN wealth[r])
        /\ \A i \in 1..Len(datacollector[r].Wealth) :
              DOMAIN datacollector[r].Wealth[i] = DOMAIN wealth[r]

\* the largest population, after its steps
C16_Witness == n = MaxAgents /\ pc[1] = "idle" /\ steps[1] = MaxSteps

\* C17: in every state of a model built with n agents, and in every row it
\* has captured, the wealth of the agents sums to n, and no agent holds
\* more than n.
C17_TotalIsAgentCount ==
    \A r \in Runs : Live(r) =>
        /\ sum(wealth[r]) = n
        /\ \A a \in DOMAIN wealth[r] : wealth[r][a] <= n
        /\ \A i \in 1..Len(datacollector[r].Wealth) : sum(datacollector[r].Wealth[i]) = n

\* one agent holds all the wealth of the largest population
C17_Witness ==
    /\ n = MaxAgents
    /\ \E a \in DOMAIN wealth[1] : wealth[1][a] = n

\* C18: the activation of agent a moves no other agent, leaves a's wealth
\* as it is or 1 lower, lowers no other agent's wealth and raises at most
\* one agent's wealth, by 1; no other step changes wealth or position; so
\* from one capture to the next an agent's wealth falls by at most 1.
C18_ActivationFrame ==
    /\ [][\A r \in Runs :
            IF Activated(r)
            THEN LET a == Head(schedule[r])
                     up == {b \in DOMAIN wealth[r] : wealth'[r][b] > wealth[r][b]}
                 IN  /\ \A b \in DOMAIN wealth[r] \ {a} :
                           pos'[r][b] = pos[r][b] /\ wealth'[r][b] >= wealth[r][b]
                     /\ wealth'[r][a] \in {wealth[r][a], wealth[r][a] - 1}
                     /\ Cardinality(up) <= 1
                     /\ \A b \in up : wealth'[r][b] = wealth[r][b] + 1
            ELSE Live(r) => wealth'[r] = wealth[r] /\ pos'[r] = pos[r]]_vars
    /\ [](\A r \in Runs : \A i \in 1..Len(datacollector[r].Wealth) :
            i > 1 => \A a \in DOMAIN wealth[r] :
                datacollector[r].Wealth[i][a] >= datacollector[r].Wealth[i - 1][a] - 1)

\* mid-step, the acting agent has given its last unit to an agent in its cell
C18_Witness ==
    /\ pc[1] = "stepping"
    /\ \E a, b \in DOMAIN wealth[1] :
          /\ a # b
          /\ \A i \in 1..Len(schedule[1]) : schedule[1][i] # a
          /\ wealth[1][a] = datacollector[1].Wealth[steps[1] + 1][a] - 1
          /\ wealth[1][b] = datacollector[1].Wealth[steps[1] + 1][b] + 1
          /\ pos[1][a] = pos[1][b]

\* C19: the capture taken at construction, every agent holding wealth 1,
\* records the coefficient 0, whatever the agent count and the grid.
C19_InitialGini ==
    \A r \in Runs : Live(r) =>
        /\ Len(datacollector[r].Gini) >= 1
        /\ datacollector[r].Gini[1].num = 0
        /\ datacollector[r].Gini[1].den > 0
        /\ \A a \in DOMAIN wealth[r] : datacollector[r].Wealth[1][a] = 1

\* the largest population, just constructed
C19_Witness ==
    /\ n = MaxAgents
    /\ pc[1] = "idle"
    /\ steps[1] = 0
    /\ Len(datacollector[1].Gini) = 1

====
